---- MODULE Spec2Model ----
(***************************************************************************)
(* Model of dmenuwrap.py: the dmenu() selection function, the DMenu        *)
(* driver and its two specialisations HandlerListDMenu and HandlerDMenu.   *)
(*                                                                         *)
(* Text is a sequence of one-character strings.  A Python value is a       *)
(* record [tag, txt]: tag "str" is the string txt, tag "obj" is a non-str  *)
(* object whose str() is txt, and tag "None" is None.                      *)
(***************************************************************************)
EXTENDS Integers, Sequences, FiniteSets, TLC

\* ---------------------------------------------------------------- bounds
MaxLen == 1        \* longest text of an option of the plain driver
MaxOptions == 2    \* longest list returned by an overridden create_options
MaxOut == 2        \* longest line the selector process writes
MaxHandlers == 2   \* longest list of handlers given to HandlerListDMenu
MaxMembers == 1    \* most function members of a reflected object
MaxParams == 1     \* most parameters of a handler function
MaxDup == 2        \* distinct function objects per (name, arity)

\* ------------------------------------------------------------------ text
NL == "\n"
SP == " "
OptChars == {"a", SP}
LineChars == {"a", "_", SP}

TextOver(chars, n) == UNION {[1..k -> chars] : k \in 0..n}

\* code point of a character (Python compares str by code point)
Ord(c) ==
  CASE c = NL -> 10
    [] c = SP -> 32
    [] c = "_" -> 95
    [] c = "a" -> 97

NoneVal == [tag |-> "None", txt |-> <<>>]
StrVal(t) == [tag |-> "str", txt |-> t]

\* str(v) of map(str, options)
PyStr(v) == v.txt

\* s == v for a str s: a str equals only an equal str
PyEq(s, v) == v.tag = "str" /\ v.txt = s

\* `option in options` for a str option
PyIn(s, opts) == \E i \in DOMAIN opts : PyEq(s, opts[i])

\* '\n'.join(texts)
RECURSIVE join(_)
join(texts) ==
  IF texts = <<>> THEN <<>>
  ELSE IF Len(texts) = 1 THEN texts[1]
  ELSE texts[1] \o <<NL>> \o join(Tail(texts))

IsSpace(c) == c \in {SP, NL}

\* str.rstrip(): drop every trailing whitespace character
RECURSIVE rstrip(_)
rstrip(t) ==
  IF t = <<>> THEN <<>>
  ELSE IF IsSpace(t[Len(t)]) THEN rstrip(SubSeq(t, 1, Len(t) - 1))
  ELSE t

\* the return value of dmenu(options) when the child process wrote out
dmenu_nomember(options, out) == StrVal(rstrip(out))
dmenu(options, out) ==
  LET option == rstrip(out)
  IN IF PyIn(option, options) THEN StrVal(option) ELSE NoneVal

\* truth value of dmenu's result in `if option:`
PyTruthy_notNone(v) == v # NoneVal
PyTruthy(v) == v.tag = "str" /\ v.txt # <<>>

\* ------------------------------------------------------------- functions
\* a function object: its __name__, its number of parameters, and an
\* identity distinguishing distinct objects of equal name and arity
FnNames == {<<"a">>, <<"_", "a">>, <<"_", "_">>}
AttrNames == {<<"a">>, <<"_", "a">>, <<"_", "_">>}
Fns == [name : FnNames, nparams : 0..MaxParams, id : 1..MaxDup]

\* str < str: lexicographic by code point, a proper prefix is smaller
RECURSIVE StrLess(_, _)
StrLess(s, t) ==
  IF s = <<>> THEN t # <<>>
  ELSE IF t = <<>> THEN FALSE
  ELSE IF s[1] = t[1] THEN StrLess(Tail(s), Tail(t))
  ELSE Ord(s[1]) < Ord(t[1])

\* name.startswith('__')
startswith__(name) == Len(name) >= 2 /\ name[1] = "_" /\ name[2] = "_"

\* len(inspect.signature(fn).parameters) == 0
ZeroArgs_atmostone(fn) == fn.nparams <= 1
ZeroArgs(fn) == fn.nparams = 0

\* [(fn.__name__, fn) for fn in option_handlers if <zero parameters>]
RECURSIVE handler_list(_)
handler_list(fns) ==
  IF fns = <<>> THEN <<>>
  ELSE IF ZeroArgs(fns[1])
       THEN <<[name |-> fns[1].name, fn |-> fns[1]]>> \o handler_list(Tail(fns))
       ELSE handler_list(Tail(fns))

\* sorted() compares (name, fn) tuples: two tuples of equal name and
\* distinct function objects fall through to fn < fn, a TypeError
sorted_raises(list) ==
  \E i, j \in DOMAIN list :
     i # j /\ list[i].name = list[j].name /\ list[i].fn # list[j].fn

\* stable insertion of one tuple into a list sorted by name
RECURSIVE insert(_, _)
insert(x, list) ==
  IF list = <<>> THEN <<x>>
  ELSE IF StrLess(x.name, list[1].name) THEN <<x>> \o list
  ELSE <<list[1]>> \o insert(x, Tail(list))

\* sorted(handler_list) when no comparison raises
RECURSIVE sorted_from(_, _)
sorted_from(acc, list) ==
  IF list = <<>> THEN acc
  ELSE sorted_from(insert(list[Len(list)], acc), SubSeq(list, 1, Len(list) - 1))

sorted_unsorted(list) == list
sorted(list) == sorted_from(<<>>, list)

\* d[k] = v on an ordered mapping: an existing key keeps its position
DictSet(d, k, v) ==
  IF \E i \in DOMAIN d : d[i].name = k
  THEN [i \in DOMAIN d |-> IF d[i].name = k THEN [name |-> k, fn |-> v] ELSE d[i]]
  ELSE Append(d, [name |-> k, fn |-> v])

\* OrderedDict(handler_list)
RECURSIVE OrderedDictFrom(_, _)
OrderedDictFrom(d, list) ==
  IF list = <<>> THEN d
  ELSE OrderedDictFrom(DictSet(d, list[1].name, list[1].fn), Tail(list))

OrderedDict(list) == OrderedDictFrom(<<>>, list)

\* option_handlers.keys(), as option values
keys(d) == [i \in DOMAIN d |-> StrVal(d[i].name)]

HasKey(d, k) == \E i \in DOMAIN d : d[i].name = k

\* self.option_handlers[option]
GetItem_first(d, k) == d[1].fn
GetItem(d, k) == d[CHOOSE i \in DOMAIN d : d[i].name = k].fn

\* HandlerListDMenu.__init__: the error raised, if any, and the mapping
HandlerListDMenu__init__(fns, srt) ==
  LET list == handler_list(fns)
  IN IF srt /\ sorted_raises(list)
     THEN [err |-> "TypeError", dict |-> <<>>]
     ELSE [err |-> "none",
           dict |-> OrderedDict(IF srt THEN sorted(list) ELSE list)]

\* inspect.getmembers(obj, inspect.isfunction): the (name, fn) pairs of
\* the object's function attributes, sorted by attribute name
RECURSIVE getmembers(_)
getmembers(obj) ==
  IF DOMAIN obj = {} THEN <<>>
  ELSE LET least == CHOOSE a \in DOMAIN obj :
                      \A b \in DOMAIN obj : b = a \/ StrLess(a, b)
       IN <<[name |-> least, fn |-> obj[least]]>>
          \o getmembers([b \in DOMAIN obj \ {least} |-> obj[b]])

\* [fn for (name, fn) in members if not name.startswith('__')]
RECURSIVE fn_list(_)
fn_list(members) ==
  IF members = <<>> THEN <<>>
  ELSE IF ~startswith__(members[1].name)
       THEN <<members[1].fn>> \o fn_list(Tail(members))
       ELSE fn_list(Tail(members))

\* ----------------------------------------------------------------- state
VARIABLES
  kind,             \* class of the driver object
  pc,               \* "new", "raised", "ready", "communicate", "exited", "done"
  sort,             \* the sort argument of HandlerListDMenu
  returned,         \* what the overridden create_options of a DMenu returns
  handlers,         \* the option_handlers argument of HandlerListDMenu
  target,           \* the object given to HandlerDMenu: attribute -> function
  option_handlers,  \* self.option_handlers, an ordered mapping
  options,          \* the local options of run
  stdin,            \* what dmenu wrote to the child's standard input
  out,              \* what the child wrote to its standard output
  option,           \* the local option of run, dmenu's return value
  handled,          \* the calls of handle_option, as (option, options)
  invoked,          \* the handler functions called, in order
  err               \* the exception that left the program, or "none"

vars == <<kind, pc, sort, returned, handlers, target, option_handlers,
          options, stdin, out, option, handled, invoked, err>>

Values == [tag : {"str", "obj"}, txt : TextOver(OptChars, MaxLen)]
OptionLists == UNION {[1..n -> Values] : n \in 0..MaxOptions}
HandlerLists == UNION {[1..n -> Fns] : n \in 0..MaxHandlers}
Objects ==
  UNION {[A -> Fns] : A \in {B \in SUBSET AttrNames : Cardinality(B) <= MaxMembers}}
\* the selector writes nothing, or one line with or without its terminator
Outputs == {l \o t : l \in TextOver(LineChars, MaxOut), t \in {<<>>, <<NL>>}}

Init ==
  /\ kind \in {"DMenu", "HandlerListDMenu", "HandlerDMenu"}
  /\ pc = IF kind = "DMenu" THEN "ready" ELSE "new"
  /\ sort \in IF kind = "HandlerListDMenu" THEN BOOLEAN ELSE {FALSE}
  /\ returned \in IF kind = "DMenu" THEN OptionLists ELSE {<<>>}
  /\ handlers \in IF kind = "HandlerListDMenu" THEN HandlerLists ELSE {<<>>}
  /\ target \in IF kind = "HandlerDMenu" THEN Objects ELSE {<<>>}
  /\ option_handlers = <<>>
  /\ options = <<>>
  /\ stdin = <<>>
  /\ out = <<>>
  /\ option = NoneVal
  /\ handled = <<>>
  /\ invoked = <<>>
  /\ err = "none"

\* HandlerListDMenu(option_handlers, sort)
HandlerListDMenu_init ==
  /\ pc = "new"
  /\ kind = "HandlerListDMenu"
  /\ LET r == HandlerListDMenu__init__(handlers, sort)
     IN /\ err' = r.err
        /\ option_handlers' = r.dict
        /\ pc' = IF r.err = "none" THEN "ready" ELSE "raised"
  /\ UNCHANGED <<kind, sort, returned, handlers, target, options, stdin, out,
                 option, handled, invoked>>

\* HandlerDMenu(option_handlers)
HandlerDMenu_init ==
  /\ pc = "new"
  /\ kind = "HandlerDMenu"
  /\ LET fns == fn_list(getmembers(target))
         r == HandlerListDMenu__init__(fns, FALSE)
     IN /\ err' = r.err
        /\ option_handlers' = r.dict
        /\ handlers' = fns
        /\ pc' = IF r.err = "none" THEN "ready" ELSE "raised"
  /\ UNCHANGED <<kind, sort, returned, target, options, stdin, out,
                 option, handled, invoked>>

\* self.create_options()
create_options ==
  IF kind = "DMenu" THEN returned ELSE keys(option_handlers)

\* run, up to the point where dmenu blocks in communicate()
run_call ==
  /\ pc = "ready"
  /\ options' = create_options
  /\ stdin' = join([i \in DOMAIN options' |-> PyStr(options'[i])])
  /\ pc' = "communicate"
  /\ UNCHANGED <<kind, sort, returned, handlers, target, option_handlers, out,
                 option, handled, invoked, err>>

\* the selector process writes its output and exits
selector_exit ==
  /\ pc = "communicate"
  /\ \E o \in Outputs : out' = o
  /\ pc' = "exited"
  /\ UNCHANGED <<kind, sort, returned, handlers, target, option_handlers,
                 options, stdin, option, handled, invoked, err>>

\* run, from the return of communicate() to its end
run_return ==
  /\ pc = "exited"
  /\ option' = dmenu(options, out)
  /\ IF PyTruthy(option')
     THEN /\ handled' = Append(handled, [option |-> option', options |-> options])
          /\ IF kind = "DMenu"
             THEN UNCHANGED <<invoked, err>>
             ELSE IF HasKey(option_handlers, option'.txt)
                  THEN /\ invoked' = Append(invoked, GetItem(option_handlers, option'.txt))
                       /\ err' = err
                  ELSE /\ err' = "KeyError"
                       /\ invoked' = invoked
     ELSE UNCHANGED <<handled, invoked, err>>
  /\ pc' = "done"
  /\ UNCHANGED <<kind, sort, returned, handlers, target, option_handlers,
                 options, stdin, out>>

Next ==
  \/ HandlerListDMenu_init
  \/ HandlerDMenu_init
  \/ run_call
  \/ selector_exit
  \/ run_return

Spec == Init /\ [][Next]_vars

\* ---------------------------------------------------------------- claims
\* the selector echoed the line of option i
Echoed(i) == out = PyStr(options[i]) \o <<NL>>

\* the line the selector wrote: its output without the line terminator
Line(t) == IF t # <<>> /\ t[Len(t)] = NL THEN SubSeq(t, 1, Len(t) - 1) ELSE t

Returned == pc = "done"
Produced == pc \in {"communicate", "exited", "done"}

\* names of the supplied handlers that take no argument
ZeroArgNames == {handlers[i].name : i \in {j \in DOMAIN handlers : handlers[j].nparams = 0}}

\* position at which a name is first supplied by a handler taking no argument
FirstPos(n) ==
  CHOOSE i \in DOMAIN handlers :
    /\ handlers[i].nparams = 0 /\ handlers[i].name = n
    /\ \A j \in 1..(i - 1) : ~(handlers[j].nparams = 0 /\ handlers[j].name = n)

\* position at which a name is last supplied by a handler taking no argument
LastPos(n) ==
  CHOOSE i \in DOMAIN handlers :
    /\ handlers[i].nparams = 0 /\ handlers[i].name = n
    /\ \A j \in (i + 1)..Len(handlers) : ~(handlers[j].nparams = 0 /\ handlers[j].name = n)

\* two handlers taking no argument are supplied under one name
DuplicateNames ==
  \E i, j \in DOMAIN handlers :
    /\ i # j
    /\ handlers[i].nparams = 0 /\ handlers[j].nparams = 0
    /\ handlers[i].name = handlers[j].name

\* C1: when the selector's output is a line equal to the text form of one
\* of the supplied options, dmenu returns that option and never None.
C1_RoundTrip ==
  Returned =>
    \A i \in DOMAIN options :
      Echoed(i) => option # NoneVal /\ PyStr(option) = PyStr(options[i])

\* C2 as stated: when the selector outputs empty text, dmenu returns None
\* whatever the option list contains.
C2_EmptyIsNone ==
  (Returned /\ out = <<>>) => option = NoneVal

\* C2 amended: when the selector outputs empty text, dmenu returns None
\* unless the empty string is one of the supplied options, and then it
\* returns the empty string.
C2_EmptyIsNoneOrEmptyOption ==
  (Returned /\ out = <<>>) =>
    option = IF \E i \in DOMAIN options : options[i] = StrVal(<<>>)
             THEN StrVal(<<>>) ELSE NoneVal

C2_Witness ==
  Returned /\ out = <<>> /\ options # <<>> /\ option = NoneVal

\* C3 as stated: when the line the selector writes is not present in the
\* option list, dmenu returns None; and dmenu never returns a value that
\* is not a member of the supplied options.
C3_AbsentLineIsNone ==
  Returned =>
    /\ (~\E i \in DOMAIN options : PyStr(options[i]) = Line(out)) => option = NoneVal
    /\ option # NoneVal => \E i \in DOMAIN options : options[i] = option

\* C3 amended: when the selector's output with its trailing whitespace
\* stripped equals none of the supplied options, dmenu returns None; and
\* dmenu never returns a value that is not a member of the supplied options.
C3_AbsentStrippedIsNone ==
  Returned =>
    /\ (~\E i \in DOMAIN options : options[i] = StrVal(rstrip(out))) => option = NoneVal
    /\ option # NoneVal => \E i \in DOMAIN options : options[i] = option

C3_Witness ==
  /\ Returned /\ options # <<>> /\ rstrip(out) # <<>>
  /\ ~\E i \in DOMAIN options : PyStr(options[i]) = rstrip(out)
  /\ option = NoneVal

\* C4: when the selector picks a member y of the list create_options
\* returned, handle_option is invoked exactly once, with (y, that list);
\* and so it is for every option the selection step returns.
C4_HandledOnce ==
  Returned =>
    /\ \A i \in DOMAIN options :
         Echoed(i) => handled = <<[option |-> options[i], options |-> options]>>
    /\ option # NoneVal => handled = <<[option |-> option, options |-> options]>>

C6_ExactlyZeroArgNames ==
  kind = "HandlerListDMenu" =>
    /\ pc \in {"ready", "communicate", "exited", "done"} =>
         {option_handlers[i].name : i \in DOMAIN option_handlers} = ZeroArgNames
    /\ Produced =>
         /\ {PyStr(options[i]) : i \in DOMAIN options} = ZeroArgNames
         /\ \A i \in DOMAIN options : options[i].tag = "str"
    /\ err # "none" => pc = "raised" /\ sort /\ DuplicateNames

C6_Witness ==
  /\ kind = "HandlerListDMenu" /\ Produced /\ options # <<>>
  /\ \E i \in DOMAIN handlers : handlers[i].nparams > 0

\* C7: with sort=True the options of HandlerListDMenu are in ascending
\* lexicographic order; with sort=False they are in the order in which
\* the handlers were supplied.
C7_Order ==
  (kind = "HandlerListDMenu" /\ Produced) =>
    \A i, j \in DOMAIN options :
      i < j => IF sort THEN StrLess(PyStr(options[i]), PyStr(options[j]))
               ELSE FirstPos(PyStr(options[i])) < FirstPos(PyStr(options[j]))

C7_Witness ==
  /\ kind = "HandlerListDMenu" /\ Produced /\ sort
  /\ Len(options) >= 2
  /\ \E i, j \in DOMAIN handlers :
       /\ i < j /\ handlers[i].nparams = 0 /\ handlers[j].nparams = 0
       /\ StrLess(handlers[j].name, handlers[i].name)

\* C8: when two or more handlers that take no argument share a name,
\* construction raises no error whether sort is True or False, the name
\* appears once in the options, and the mapping holds the last such handler.
C8_DuplicatesOverwrite ==
  (kind = "HandlerListDMenu" /\ pc # "new" /\ DuplicateNames) =>
    /\ err = "none" /\ pc # "raised"
    /\ \A n \in ZeroArgNames :
         /\ Cardinality({i \in DOMAIN option_handlers : option_handlers[i].name = n}) = 1
         /\ \A i \in DOMAIN option_handlers :
              option_handlers[i].name = n => option_handlers[i].fn = handlers[LastPos(n)]

\* C9: no option HandlerDMenu produces has a name (fn.__name__) that
\* begins with '__'.
C9_NoReservedNames ==
  (kind = "HandlerDMenu" /\ Produced) =>
    \A i \in DOMAIN options : ~startswith__(PyStr(options[i]))

\* C10: in a run of a handler menu where the selector picks the name of
\* an included handler, handle_option is invoked once and calls exactly
\* the handler the mapping associates with that name, the lookup does not
\* fail, and the run leaves the mapping unchanged.
C10_Dispatch ==
  [][(kind # "DMenu" /\ pc \in {"ready", "communicate", "exited"}) =>
       /\ option_handlers' = option_handlers
       /\ pc = "exited" =>
            \A i \in DOMAIN option_handlers :
              out = option_handlers[i].name \o <<NL>> =>
                /\ invoked' = <<option_handlers[i].fn>>
                /\ Len(handled') = 1
                /\ err' = "none"]_vars

C10_Witness ==
  /\ kind = "HandlerListDMenu" /\ Returned
  /\ Len(option_handlers) = 2
  /\ out = option_handlers[2].name \o <<NL>>
  /\ invoked = <<option_handlers[2].fn>>

====
